---- MODULE Spec2Model ----
(***************************************************************************)
(* A model of src/matches.py: four source adapters, the ban filter, the    *)
(* fuzzy team-name equivalence, and merge_matches (allow-list pass,        *)
(* assembly pass, sort, output).                                           *)
(*                                                                         *)
(* A Python str is a TLA+ string, read character by character, so that     *)
(* lower(), strip(), substring tests, tokenisation and the similarity      *)
(* ratios are computed, not assumed.                                       *)
(***************************************************************************)
EXTENDS Integers, Sequences, FiniteSets, Bags, TLC

VARIABLES pc, response, onefootball, wtm, daddylive, allfootball,
          allowed_tournaments, merged, todo, written, errors

vars == <<pc, response, onefootball, wtm, daddylive, allfootball,
          allowed_tournaments, merged, todo, written, errors>>

----------------------------------------------------------------------------
(* str helpers                                                             *)

Uppers == "ABCDEFGHIJKLMNOPQRSTUVWXYZ"
Lowers == "abcdefghijklmnopqrstuvwxyz"

\* s[i-1] of Python: the i-th character, a string of length one
Char(s, i) == SubSeq(s, i, i)

LowerChar(c) ==
    IF \E i \in 1..Len(Uppers) : Char(Uppers, i) = c
    THEN Char(Lowers, CHOOSE i \in 1..Len(Uppers) : Char(Uppers, i) = c)
    ELSE c

\* str.lower()
RECURSIVE Lower(_)
Lower(s) == IF s = "" THEN "" ELSE LowerChar(Head(s)) \o Lower(Tail(s))

RECURSIVE LStrip(_)
LStrip(s) == IF s # "" /\ Head(s) = " " THEN LStrip(Tail(s)) ELSE s

RECURSIVE RStrip(_)
RStrip(s) ==
    IF s # "" /\ Char(s, Len(s)) = " " THEN RStrip(SubSeq(s, 1, Len(s) - 1)) ELSE s

\* str.strip()
Strip(s) == RStrip(LStrip(s))

\* sub in s
Contains(s, sub) ==
    \E i \in 0..(Len(s) - Len(sub)) : SubSeq(s, i + 1, i + Len(sub)) = sub

\* str.split(): the maximal runs of non-space characters, in order.
RECURSIVE SplitFrom(_, _, _)
SplitFrom(s, cur, acc) ==
    IF s = "" THEN (IF cur = "" THEN acc ELSE Append(acc, cur))
    ELSE IF Head(s) = " "
         THEN SplitFrom(Tail(s), "", IF cur = "" THEN acc ELSE Append(acc, cur))
         ELSE SplitFrom(Tail(s), cur \o Head(s), acc)

Split(s) == SplitFrom(s, "", <<>>)

\* sep.join(parts)
RECURSIVE Join(_, _)
Join(sep, parts) ==
    IF parts = <<>> THEN ""
    ELSE IF Len(parts) = 1 THEN parts[1]
    ELSE parts[1] \o sep \o Join(sep, Tail(parts))

Range(s) == {s[i] : i \in DOMAIN s}

Max(a, b) == IF a >= b THEN a ELSE b

----------------------------------------------------------------------------
(* FILTER RULES                                                            *)

\* The ban set loaded at import time from banned.txt, lower-cased and
\* stripped; here the file holds the single line "Friendly".
BANNED_TOURNAMENTS_LOWER == {"friendly"}

youth_patterns == <<"u18", "u19", "u21", "u23", "youth", "reserve", "reserves", "academy">>

AnyYouth(s) == \E k \in DOMAIN youth_patterns : Contains(s, youth_patterns[k])

\* The filter without the checks on the team names.
is_banned_match_competition_only(home, away, competition) ==
    LET lname == Lower(Strip(competition))
    IN  \/ lname \in BANNED_TOURNAMENTS_LOWER
        \/ Contains(lname, "women") \/ Contains(lname, "nwsl")
        \/ AnyYouth(lname)

is_banned_match(home, away, competition) ==
    LET lname == Lower(Strip(competition))
    IN  \/ lname \in BANNED_TOURNAMENTS_LOWER
        \/ Contains(lname, "women") \/ Contains(lname, "nwsl")
        \/ AnyYouth(lname)
        \/ Contains(Lower(home), "women") \/ Contains(Lower(away), "women")
        \/ AnyYouth(Lower(home)) \/ AnyYouth(Lower(away))

----------------------------------------------------------------------------
(* HELPERS: normalisation and equivalence                                  *)

stopwords == {"fc", "cf", "club", "the", "team", "deportivo"}

\* re.sub(r"[^a-z ]", " ", n)
RECURSIVE LettersOnly(_)
LettersOnly(s) ==
    IF s = "" THEN ""
    ELSE (IF Contains(Lowers, Head(s)) \/ Head(s) = " " THEN Head(s) ELSE " ")
         \o LettersOnly(Tail(s))

\* The team names of the modelled pages are ASCII, and on ASCII text the
\* NFKD decomposition and the encode/decode round trip change nothing.
normalize_team_name(name) ==
    IF name = "" THEN ""
    ELSE LET n == LettersOnly(Lower(name))
             \* collapsing whitespace and strip() before split() change
             \* nothing split() does not already do
             tokens == SelectSeq(Split(n), LAMBDA t : t \notin stopwords)
         IN  Join(" ", tokens)

\* Length of the longest common subsequence, row by row.
RECURSIVE LcsRow(_, _, _, _)
LcsRow(prev, cur, c, t2) ==
    \* prev, cur: rows of the table, entry j+1 for column j
    LET j == Len(cur)
    IN  IF j > Len(t2) THEN cur
        ELSE LcsRow(prev,
                    Append(cur, IF c = Char(t2, j) THEN prev[j] + 1
                                ELSE Max(prev[j + 1], cur[j])),
                    c, t2)

RECURSIVE LcsRows(_, _, _)
LcsRows(t1, t2, prev) ==
    IF t1 = "" THEN prev[Len(prev)]
    ELSE LcsRows(Tail(t1), t2, LcsRow(prev, <<0>>, Head(t1), t2))

Lcs(t1, t2) == LcsRows(t1, t2, [j \in 1..(Len(t2) + 1) |-> 0])

\* rapidfuzz fuzz.ratio(a, b) >= cutoff: the normalised indel similarity
\* 100 * 2 * lcs / (len(a) + len(b)), compared without rounding.
RatioAtLeast(a, b, cutoff) ==
    IF Len(a) + Len(b) = 0 THEN TRUE
    ELSE 200 * Lcs(a, b) >= cutoff * (Len(a) + Len(b))

\* rapidfuzz fuzz.partial_ratio(a, b) >= cutoff: the best fuzz.ratio of the
\* shorter string against a window of the longer one; the windows are the
\* substrings as long as the shorter string and the shorter prefixes and
\* suffixes of the longer string.
PartialRatioAtLeast(a, b, cutoff) ==
    LET short == IF Len(a) <= Len(b) THEN a ELSE b
        long  == IF Len(a) <= Len(b) THEN b ELSE a
        m == Len(short)
        n == Len(long)
        windows ==
            {SubSeq(long, i, i + m - 1) : i \in 1..(n - m + 1)}
            \cup {SubSeq(long, 1, k) : k \in 1..(m - 1)}
            \cup {SubSeq(long, n - k + 1, n) : k \in 1..(m - 1)}
    IN  IF m = 0 THEN n = 0
        ELSE \E w \in windows : RatioAtLeast(short, w, cutoff)

RATIO_CUTOFF == 80

names_equivalent(n1, n2) ==
    LET t1 == normalize_team_name(n1)
        t2 == normalize_team_name(n2)
    IN  IF t1 = "" \/ t2 = "" THEN FALSE
        ELSE IF Range(Split(t1)) \cap Range(Split(t2)) # {} THEN TRUE
        ELSE IF RatioAtLeast(t1, t2, RATIO_CUTOFF) THEN TRUE
        ELSE IF PartialRatioAtLeast(t1, t2, RATIO_CUTOFF) THEN TRUE
        ELSE IF Contains(t2, t1) \/ Contains(t1, t2) THEN TRUE
        ELSE FALSE

\* The variant that also accepts the two sides swapped.
teams_match_either_side(h1, a1, h2, a2) ==
    \/ names_equivalent(h1, h2) /\ names_equivalent(a1, a2)
    \/ names_equivalent(h1, a2) /\ names_equivalent(a1, h2)

teams_match(h1, a1, h2, a2) ==
    names_equivalent(h1, h2) /\ names_equivalent(a1, a2)

----------------------------------------------------------------------------
(* Time texts.  A kickoff text is [ok, d, h, m]: ok means the text has the  *)
(* shape "%Y-%m-%d %H:%M" (day d, hour h, minute m) that strptime accepts;  *)
(* any other text, "Unknown" among them, has ok = FALSE.                    *)

Unknown == [ok |-> FALSE, d |-> 0, h |-> 0, m |-> 0]
BadTime == [ok |-> FALSE, d |-> 0, h |-> 99, m |-> 99]

At(d, h, m) == [ok |-> TRUE, d |-> d, h |-> h, m |-> m]

\* The current date in Africa/Nairobi (and on the broadcast site's page).
Today == 1

GMT3_OFFSET_HOURS == 3
\* Europe/London to Africa/Nairobi on a summer date.
BST_TO_GMT3_HOURS == 2
HOURS_PER_DAY == 24

\* astimezone(): the wall clock moved forward by `hours`, the day rolling over.
ShiftHours(t, hours) ==
    IF t.h + hours >= HOURS_PER_DAY
    THEN At(t.d + 1, t.h + hours - HOURS_PER_DAY, t.m)
    ELSE At(t.d, t.h + hours, t.m)

----------------------------------------------------------------------------
(* What the four pages can hold                                            *)

\* A field the raw record of a page does not carry
Missing == "<missing>"

\* OneFootball: the match cards, flattened over the matchCardsList containers.
OnefootballCards ==
    { [match_id |-> 1, home |-> "Arsenal", away |-> "Chelsea",
       competition |-> "Premier League", kickoff |-> At(1, 15, 0)],
      [match_id |-> 2, home |-> "Real Madrid", away |-> "Barcelona",
       competition |-> "La Liga", kickoff |-> At(1, 15, 0)],
      [match_id |-> 3, home |-> "Chelsea", away |-> "Arsenal",
       competition |-> "premier league", kickoff |-> At(1, 6, 0)],
      [match_id |-> 4, home |-> "Arsenal", away |-> "Chelsea",
       competition |-> "NWSL Challenge Cup", kickoff |-> At(0, 22, 30)],
      [match_id |-> 5, home |-> "Arsenal Women", away |-> "Chelsea",
       competition |-> "Premier League", kickoff |-> At(1, 12, 0)],
      [match_id |-> 6, home |-> "Barcelona", away |-> "Chelsea",
       competition |-> Missing, kickoff |-> BadTime] }

\* WherestheMatch: the table rows.  cells: the row has its fixture and time
\* cells and two team links.  time: the text of the time span.
WtmRows ==
    { [cells |-> TRUE, home |-> "Arsenal FC", away |-> "Chelsea",
       competition |-> "Premier League", time |-> At(Today, 23, 0),
       channels |-> <<"Sky Sports", "ESPN">>],
      [cells |-> TRUE, home |-> "Barcelona", away |-> "Real Madrid",
       competition |-> Missing, time |-> BadTime,
       channels |-> <<>>] }

\* DaddyLive: the schedule events of the page (or of the fallback file),
\* flattened over the day blocks.  header: the event has its header;
\* time_span: the header has its time span; time: the span's text on the
\* day block's date; comp, home, away: the title "comp: home vs away" taken
\* apart (home = away = "" when the title is no fixture).
DaddyliveEvents ==
    { [header |-> TRUE, time_span |-> TRUE, time |-> At(1, 15, 0),
       comp |-> "Premier League", home |-> "Arsenal", away |-> "Chelsea",
       channels |-> <<"Stream1", "espn ", "">>],
      [header |-> TRUE, time_span |-> TRUE, time |-> BadTime,
       comp |-> "", home |-> "Real Madrid", away |-> "Barcelona",
       channels |-> <<>>],
      [header |-> TRUE, time_span |-> FALSE, time |-> BadTime,
       comp |-> "Tennis", home |-> "Real Madrid", away |-> "Barcelona",
       channels |-> <<"Stream1">>] }

\* AllFootball: currentListData; date: date_utc and time_utc put together.
AllfootballMatches ==
    { [team_A_name |-> "Real Madrid", team_B_name |-> "Barcelona",
       competition_name |-> "La Liga", date |-> At(1, 15, 0)],
      [team_A_name |-> "Arsenal", team_B_name |-> "Chelsea",
       competition_name |-> "Premier League", date |-> BadTime],
      [team_A_name |-> "Arsenal", team_B_name |-> "Chelsea",
       competition_name |-> "Premier League", date |-> At(1, 22, 0)] }

\* The texts of the pages, and lower() and strip() looked up for them: a
\* table is the set of pairs <<argument, result>>, computed once, and a text
\* that is not in it is computed.
TeamNames ==
    {c.home : c \in OnefootballCards} \cup {c.away : c \in OnefootballCards}
    \cup {r.home : r \in WtmRows} \cup {r.away : r \in WtmRows}
    \cup {e.home : e \in DaddyliveEvents} \cup {e.away : e \in DaddyliveEvents}
    \cup {m.team_A_name : m \in AllfootballMatches}
    \cup {m.team_B_name : m \in AllfootballMatches}

PageTexts ==
    TeamNames
    \cup {c.competition : c \in OnefootballCards} \cup {r.competition : r \in WtmRows}
    \cup {e.comp : e \in DaddyliveEvents}
    \cup {m.competition_name : m \in AllfootballMatches}
    \cup UNION {Range(r.channels) : r \in WtmRows}
    \cup UNION {Range(e.channels) : e \in DaddyliveEvents}
    \cup {"Unknown Tournament", "Unknown competition", "Unknown Competition",
          "Not specified"}

Lookup(table, x) == (CHOOSE p \in table : p[1] = x)[2]

StripTable == {<<s, Strip(s)>> : s \in PageTexts}

Stripped(s) == IF s \in PageTexts THEN Lookup(StripTable, s) ELSE Strip(s)

StrippedTexts == {p[2] : p \in StripTable}

LowerTable == {<<s, Lower(s)>> : s \in PageTexts \cup StrippedTexts}

Lowered(s) ==
    IF s \in PageTexts \cup StrippedTexts THEN Lookup(LowerTable, s) ELSE Lower(s)

\* teams_match looked up for the team names of the pages.
TeamsMatchTable ==
    {<<q, teams_match(q[1], q[2], q[3], q[4])>> :
        q \in TeamNames \X TeamNames \X TeamNames \X TeamNames}

TeamsMatch(a, b) ==
    IF {a.home, a.away, b.home, b.away} \subseteq TeamNames
    THEN << <<a.home, a.away, b.home, b.away>>, TRUE >> \in TeamsMatchTable
    ELSE teams_match(a.home, a.away, b.home, b.away)

----------------------------------------------------------------------------
(* ONEFOOTBALL                                                             *)

OnefootballRecord(m) ==
    [match_id |-> m.match_id,
     home |-> m.home,
     away |-> m.away,
     competition |-> IF m.competition = Missing THEN "Unknown Tournament"
                     ELSE m.competition,
     kickoff |-> ShiftHours(m.kickoff, GMT3_OFFSET_HOURS)]

\* The loop over the cards: strptime on a bad kickoff raises, nothing inside
\* the loop catches it, and the function's own handler ends the loop.
RECURSIVE OnefootballLoop(_, _)
OnefootballLoop(cards, matches) ==
    IF cards = <<>> THEN matches
    ELSE IF ~Head(cards).kickoff.ok THEN matches
    ELSE OnefootballLoop(Tail(cards), Append(matches, OnefootballRecord(Head(cards))))

\* The handler around the whole function was entered: logger.error
OnefootballRaises(status, cards) ==
    status = "fail" \/ \E i \in DOMAIN cards : ~cards[i].kickoff.ok

fetch_onefootball_matches(status, cards) ==
    IF status = "fail" THEN <<>> ELSE OnefootballLoop(cards, <<>>)

\* is_banned_match looked up for the records the adapter can return.
OnefootballRecords == {OnefootballRecord(c) : c \in OnefootballCards}

BannedTable ==
    {<<om, is_banned_match(om.home, om.away, om.competition)>> : om \in OnefootballRecords}

IsBanned(om) ==
    IF om \in OnefootballRecords
    THEN <<om, TRUE>> \in BannedTable
    ELSE is_banned_match(om.home, om.away, om.competition)

----------------------------------------------------------------------------
(* WHERESTHEMATCH                                                          *)

WtmChannels(row) ==
    IF row.channels = <<>> THEN <<"Not specified">> ELSE row.channels

WtmRecord(row) ==
    [home |-> row.home,
     away |-> row.away,
     competition |-> IF row.competition = Missing THEN "Unknown competition"
                     ELSE row.competition,
     kickoff |-> IF row.time.ok THEN ShiftHours(row.time, BST_TO_GMT3_HOURS)
                 ELSE Unknown,
     channels |-> WtmChannels(row)]

RECURSIVE WtmLoop(_, _)
WtmLoop(rows, matches) ==
    IF rows = <<>> THEN matches
    ELSE IF ~Head(rows).cells THEN WtmLoop(Tail(rows), matches)
    ELSE WtmLoop(Tail(rows), Append(matches, WtmRecord(Head(rows))))

fetch_wheresthematch_matches(status, rows) ==
    IF status = "fail" THEN <<>> ELSE WtmLoop(rows, <<>>)

----------------------------------------------------------------------------
(* DADDYLIVE                                                               *)

BLOCKED_KEYWORDS ==
    { "tennis", "basketball", "hockey", "volleyball", "handball",
      "table tennis", "snooker", "darts", "esport", "counter-strike",
      "mlb", "nfl", "rugby", "cricket", "boxing", "mma", "ufc",
      "wwe", "badminton", "futsal", "cycling", "motogp", "formula",
      "nascar", "golf", "chess", "kabaddi" }

\* html_time_to_gmt3: the text itself when it cannot be read as a time.
html_time_to_gmt3(time) ==
    IF time.ok THEN ShiftHours(time, GMT3_OFFSET_HOURS) ELSE time

DaddyliveComp(row) ==
    IF Stripped(row.comp) = "" THEN "Unknown Competition" ELSE Stripped(row.comp)

DaddyliveChannels(row) ==
    IF row.channels = <<>> THEN <<"Not specified">> ELSE row.channels

DaddyliveKey(row) ==
    <<Lowered(Stripped(row.home)), Lowered(Stripped(row.away)),
      Lowered(DaddyliveComp(row))>>

DaddyliveBlocked(row) ==
    LET text == Lower(DaddyliveComp(row)) \o " "
                \o Lower(row.home \o " vs " \o row.away)
    IN  \E bad \in BLOCKED_KEYWORDS : Contains(text, bad)

DaddyliveOnlyExtraStreams(row) ==
    \A i \in DOMAIN DaddyliveChannels(row) :
        Contains(Lower(DaddyliveChannels(row)[i]), "extra stream")

\* The two keyword filters looked up for the events of the page.
BlockedTable == {<<e, DaddyliveBlocked(e)>> : e \in DaddyliveEvents}

ExtraStreamTable == {<<e, DaddyliveOnlyExtraStreams(e)>> : e \in DaddyliveEvents}

\* The loop over the events: a missing time span raises (get_text of None)
\* and the handler around the whole parse ends the loop.
RECURSIVE DaddyliveLoop(_, _, _)
DaddyliveLoop(rows, matches, seen) ==
    IF rows = <<>> THEN matches
    ELSE LET row == Head(rows)
         IN  IF ~row.header THEN DaddyliveLoop(Tail(rows), matches, seen)
             ELSE IF ~row.time_span THEN matches
             ELSE IF row.home = "" \/ row.away = ""
                  THEN DaddyliveLoop(Tail(rows), matches, seen)
             ELSE IF <<row, TRUE>> \in BlockedTable
                  THEN DaddyliveLoop(Tail(rows), matches, seen)
             ELSE IF <<row, TRUE>> \in ExtraStreamTable
                  THEN DaddyliveLoop(Tail(rows), matches, seen)
             ELSE IF DaddyliveKey(row) \in seen
                  THEN DaddyliveLoop(Tail(rows), matches, seen)
             ELSE DaddyliveLoop(Tail(rows),
                      Append(matches,
                             [home |-> Stripped(row.home),
                              away |-> Stripped(row.away),
                              competition |-> DaddyliveComp(row),
                              kickoff |-> html_time_to_gmt3(row.time),
                              channels |-> DaddyliveChannels(row)]),
                      seen \cup {DaddyliveKey(row)})

\* logger.error: the fallback failed too, or the parse raised
DaddyliveRaises(status, rows) ==
    status = "fail" \/ \E i \in DOMAIN rows : rows[i].header /\ ~rows[i].time_span

\* status: "live" (the URL answered), "fallback" (the URL failed and the
\* local file was read), "fail" (both failed).
fetch_daddylive_matches(status, rows) ==
    IF status = "fail" THEN <<>> ELSE DaddyliveLoop(rows, <<>>, {})

----------------------------------------------------------------------------
(* ALLFOOTBALL                                                             *)

\* The loop over the matches, each in its own try: a date that cannot be
\* parsed skips that match only; a match on another local date is left out.
RECURSIVE AllfootballLoop(_, _)
AllfootballLoop(raw, matches) ==
    IF raw = <<>> THEN matches
    ELSE LET m == Head(raw)
         IN  IF ~m.date.ok THEN AllfootballLoop(Tail(raw), matches)
             ELSE IF ShiftHours(m.date, GMT3_OFFSET_HOURS).d # Today
                  THEN AllfootballLoop(Tail(raw), matches)
             ELSE AllfootballLoop(Tail(raw),
                      Append(matches,
                             [home |-> m.team_A_name,
                              away |-> m.team_B_name,
                              competition |-> m.competition_name,
                              kickoff |-> ShiftHours(m.date, GMT3_OFFSET_HOURS)]))

fetch_allfootball_matches(status, raw) ==
    IF status = "fail" THEN <<>> ELSE AllfootballLoop(raw, <<>>)

----------------------------------------------------------------------------
(* MERGE AND SAVE                                                          *)

\* Bounds on the number of raw records a source's page holds.
MaxOnefootball == 2
MaxWtm == 2
MaxDaddylive == 1
MaxAllfootball == 1

SeqsUpTo(S, n) == UNION {[1..k -> S] : k \in 0..n}

NoResponse == [src |-> "none", status |-> "none", records |-> <<>>]

Min(S) == CHOOSE x \in S : \A y \in S : x <= y

\* channels.extend(x["channels"]) over a list of records, in list order
RECURSIVE Extend(_, _)
Extend(channels, records) ==
    IF records = <<>> THEN channels
    ELSE Extend(channels \o Head(records).channels, Tail(records))

wtm_matches(om) ==
    SelectSeq(wtm, LAMBDA wm : TeamsMatch(om, wm))

af_matches(om) ==
    SelectSeq(allfootball, LAMBDA am : TeamsMatch(om, am))

dl_matches(om) ==
    SelectSeq(daddylive, LAMBDA dm : TeamsMatch(om, dm))

\* Pass 1 gone wrong: the competition goes into the set as it is spelled.
Pass1Fixture_keeps_case(om, allowed) ==
    IF IsBanned(om) THEN allowed
    ELSE IF wtm_matches(om) # <<>> \/ af_matches(om) # <<>>
         THEN allowed \cup {om.competition}
         ELSE allowed

\* Pass 1 gone wrong: a streaming match counts as corroboration.
Pass1Fixture_streaming_corroborates(om, allowed) ==
    IF IsBanned(om) THEN allowed
    ELSE IF wtm_matches(om) # <<>> \/ af_matches(om) # <<>> \/ dl_matches(om) # <<>>
         THEN allowed \cup {Lowered(om.competition)}
         ELSE allowed

\* The set after pass 1 has handled om.
Pass1Fixture(om, allowed) ==
    IF IsBanned(om) THEN allowed
    ELSE IF wtm_matches(om) # <<>> \/ af_matches(om) # <<>>
         THEN allowed \cup {Lowered(om.competition)}
         ELSE allowed

\* The cleaning loop gone wrong: the key keeps its case.
RECURSIVE CleanChannels_case_sensitive(_, _, _)
CleanChannels_case_sensitive(channels, seen, clean_channels) ==
    IF channels = <<>> THEN clean_channels
    ELSE LET ch == Head(channels)
             key == Stripped(ch)
         IN  IF key # "" /\ key \notin seen
             THEN CleanChannels_case_sensitive(Tail(channels), seen \cup {key},
                                               Append(clean_channels, ch))
             ELSE CleanChannels_case_sensitive(Tail(channels), seen, clean_channels)

\* The loop that cleans the collected channels.
RECURSIVE CleanChannels(_, _, _)
CleanChannels(channels, seen, clean_channels) ==
    IF channels = <<>> THEN clean_channels
    ELSE LET ch == Head(channels)
             key == Lowered(Stripped(ch))
         IN  IF key # "" /\ key \notin seen
             THEN CleanChannels(Tail(channels), seen \cup {key}, Append(clean_channels, ch))
             ELSE CleanChannels(Tail(channels), seen, clean_channels)

\* Pass 2 gone wrong: a streaming match alone is enough to emit.
Pass2Fixture_streaming_corroborates(om, allowed) ==
    IF IsBanned(om) THEN <<>>
    ELSE LET from_dl == Extend(<<>>, dl_matches(om))
         IN  IF wtm_matches(om) # <<>>
             THEN << [match_id |-> om.match_id, home |-> om.home, away |-> om.away,
                      competition |-> om.competition, kickoff |-> om.kickoff,
                      channels |-> CleanChannels(Extend(<<>>, wtm_matches(om)) \o from_dl,
                                                 {}, <<>>)] >>
             ELSE IF af_matches(om) # <<>> \/ dl_matches(om) # <<>>
                     \/ Lowered(om.competition) \in allowed
             THEN << [match_id |-> om.match_id, home |-> om.home, away |-> om.away,
                      competition |-> om.competition, kickoff |-> om.kickoff,
                      channels |-> CleanChannels(from_dl, {}, <<>>)] >>
             ELSE <<>>

\* What pass 2 appends to merged for om: one record, or nothing.
Pass2Fixture(om, allowed) ==
    IF IsBanned(om) THEN <<>>
    ELSE LET from_dl == Extend(<<>>, dl_matches(om))
         IN  IF wtm_matches(om) # <<>>
             THEN << [match_id |-> om.match_id, home |-> om.home, away |-> om.away,
                      competition |-> om.competition, kickoff |-> om.kickoff,
                      channels |-> CleanChannels(Extend(<<>>, wtm_matches(om)) \o from_dl,
                                                 {}, <<>>)] >>
             ELSE IF af_matches(om) # <<>> \/ Lowered(om.competition) \in allowed
             THEN << [match_id |-> om.match_id, home |-> om.home, away |-> om.away,
                      competition |-> om.competition, kickoff |-> om.kickoff,
                      channels |-> CleanChannels(from_dl, {}, <<>>)] >>
             ELSE <<>>

\* datetime.max, in minutes, above every kickoff a page can carry
DATETIME_MAX == 2147483647
MINUTES_PER_HOUR == 60

\* The key gone wrong: a kickoff that cannot be parsed gets the least key.
kickoff_key_unknown_first(match) ==
    IF match.kickoff.ok
    THEN (match.kickoff.d * HOURS_PER_DAY + match.kickoff.h) * MINUTES_PER_HOUR
         + match.kickoff.m
    ELSE 0

kickoff_key(match) ==
    IF match.kickoff.ok
    THEN (match.kickoff.d * HOURS_PER_DAY + match.kickoff.h) * MINUTES_PER_HOUR
         + match.kickoff.m
    ELSE DATETIME_MAX

\* list.sort(key=kickoff_key): stable, so an element goes after the
\* elements whose key is not greater.
RECURSIVE InsertByKey(_, _)
InsertByKey(sorted, x) ==
    IF sorted = <<>> THEN <<x>>
    ELSE IF kickoff_key(Head(sorted)) <= kickoff_key(x)
         THEN <<Head(sorted)>> \o InsertByKey(Tail(sorted), x)
         ELSE <<x>> \o sorted

\* The sort left out.
SortByKickoff_unsorted(list) == list

RECURSIVE SortByKickoff(_)
SortByKickoff(list) ==
    IF list = <<>> THEN <<>>
    ELSE InsertByKey(SortByKickoff(SubSeq(list, 1, Len(list) - 1)), list[Len(list)])

\* One block of matches.txt
Render(m) ==
    [match |-> m.home \o " Vs " \o m.away,
     match_id |-> m.match_id,
     start |-> m.kickoff,
     tournament |-> m.competition,
     channels |-> IF m.channels # <<>> THEN Join(", ", m.channels) ELSE "Not specified"]

----------------------------------------------------------------------------
(* The run, step by step.  errors: the sources logger.error was called    *)
(* for.                                                                    *)

FetchOnefootball ==
    /\ pc = "fetch_onefootball"
    /\ \E status \in {"ok", "fail"} :
       \E cards \in (IF status = "fail" THEN {<<>>}
                     ELSE SeqsUpTo(OnefootballCards, MaxOnefootball)) :
          /\ onefootball' = fetch_onefootball_matches(status, cards)
          /\ response' = [src |-> "onefootball", status |-> status, records |-> cards]
          /\ errors' = IF OnefootballRaises(status, cards)
                        THEN errors \cup {"OneFootball"} ELSE errors
    /\ pc' = "fetch_wtm"
    /\ UNCHANGED <<wtm, daddylive, allfootball, allowed_tournaments, merged, todo, written>>

FetchWtm ==
    /\ pc = "fetch_wtm"
    /\ \E status \in {"ok", "fail"} :
       \E rows \in (IF status = "fail" THEN {<<>>} ELSE SeqsUpTo(WtmRows, MaxWtm)) :
          /\ wtm' = fetch_wheresthematch_matches(status, rows)
          /\ response' = [src |-> "wtm", status |-> status, records |-> rows]
          /\ errors' = IF status = "fail" THEN errors \cup {"WherestheMatch"} ELSE errors
    /\ pc' = "fetch_daddylive"
    /\ UNCHANGED <<onefootball, daddylive, allfootball, allowed_tournaments, merged, todo, written>>

FetchDaddylive ==
    /\ pc = "fetch_daddylive"
    /\ \E status \in {"live", "fallback", "fail"} :
       \E rows \in (IF status = "fail" THEN {<<>>}
                    ELSE SeqsUpTo(DaddyliveEvents, MaxDaddylive)) :
          /\ daddylive' = fetch_daddylive_matches(status, rows)
          /\ response' = [src |-> "daddylive", status |-> status, records |-> rows]
          /\ errors' = IF DaddyliveRaises(status, rows)
                        THEN errors \cup {"DaddyLive"} ELSE errors
    /\ pc' = "fetch_allfootball"
    /\ UNCHANGED <<onefootball, wtm, allfootball, allowed_tournaments, merged, todo, written>>

FetchAllfootball ==
    /\ pc = "fetch_allfootball"
    /\ \E status \in {"ok", "fail"} :
       \E raw \in (IF status = "fail" THEN {<<>>}
                   ELSE SeqsUpTo(AllfootballMatches, MaxAllfootball)) :
          /\ allfootball' = fetch_allfootball_matches(status, raw)
          /\ response' = [src |-> "allfootball", status |-> status, records |-> raw]
          /\ errors' = IF status = "fail" THEN errors \cup {"AllFootball"} ELSE errors
    /\ pc' = "merge"
    /\ UNCHANGED <<onefootball, wtm, daddylive, allowed_tournaments, merged, todo, written>>

\* merged = [], allowed_tournaments = set(); the adapters' locals are gone
StartMerge ==
    /\ pc = "merge"
    /\ response' = NoResponse
    /\ merged' = <<>>
    /\ allowed_tournaments' = {}
    /\ todo' = DOMAIN onefootball
    /\ pc' = "pass1"
    /\ UNCHANGED <<onefootball, wtm, daddylive, allfootball, written, errors>>

Pass1Step ==
    /\ pc = "pass1"
    /\ todo # {}
    /\ allowed_tournaments' = Pass1Fixture(onefootball[Min(todo)], allowed_tournaments)
    /\ todo' = todo \ {Min(todo)}
    /\ UNCHANGED <<pc, response, onefootball, wtm, daddylive, allfootball, merged,
                   written, errors>>

Pass1Done ==
    /\ pc = "pass1"
    /\ todo = {}
    /\ pc' = "pass2"
    /\ todo' = DOMAIN onefootball
    /\ UNCHANGED <<response, onefootball, wtm, daddylive, allfootball,
                   allowed_tournaments, merged, written, errors>>

Pass2Step ==
    /\ pc = "pass2"
    /\ todo # {}
    /\ merged' = merged \o Pass2Fixture(onefootball[Min(todo)], allowed_tournaments)
    /\ todo' = todo \ {Min(todo)}
    /\ UNCHANGED <<pc, response, onefootball, wtm, daddylive, allfootball,
                   allowed_tournaments, written, errors>>

Pass2Done ==
    /\ pc = "pass2"
    /\ todo = {}
    /\ pc' = "sort"
    /\ UNCHANGED <<response, onefootball, wtm, daddylive, allfootball,
                   allowed_tournaments, merged, todo, written, errors>>

SortStep ==
    /\ pc = "sort"
    /\ merged' = SortByKickoff(merged)
    /\ pc' = "write"
    /\ UNCHANGED <<response, onefootball, wtm, daddylive, allfootball,
                   allowed_tournaments, todo, written, errors>>

\* The writing gone wrong: a failed write empties the list.
WriteStep_clears_merged ==
    /\ pc = "write"
    /\ \/ /\ written' = [status |-> "ok",
                         blocks |-> [i \in DOMAIN merged |-> Render(merged[i])]]
          /\ errors' = errors
          /\ merged' = merged
       \/ /\ written' = [status |-> "error", blocks |-> <<>>]
          /\ errors' = errors \cup {"matches.txt"}
          /\ merged' = <<>>
    /\ pc' = "done"
    /\ UNCHANGED <<response, onefootball, wtm, daddylive, allfootball,
                   allowed_tournaments, todo>>

\* Writing matches.txt: it succeeds, or it fails and the failure is logged
\* (what a failed write leaves in the file is not modelled).
WriteStep ==
    /\ pc = "write"
    /\ \/ /\ written' = [status |-> "ok",
                         blocks |-> [i \in DOMAIN merged |-> Render(merged[i])]]
          /\ errors' = errors
       \/ /\ written' = [status |-> "error", blocks |-> <<>>]
          /\ errors' = errors \cup {"matches.txt"}
    /\ pc' = "done"
    /\ UNCHANGED <<response, onefootball, wtm, daddylive, allfootball,
                   allowed_tournaments, merged, todo>>

----------------------------------------------------------------------------
Init ==
    /\ pc = "fetch_onefootball"
    /\ response = NoResponse
    /\ onefootball = <<>>
    /\ wtm = <<>>
    /\ daddylive = <<>>
    /\ allfootball = <<>>
    /\ allowed_tournaments = {}
    /\ merged = <<>>
    /\ todo = {}
    /\ written = [status |-> "no", blocks |-> <<>>]
    /\ errors = {}

Next ==
    \/ FetchOnefootball
    \/ FetchWtm
    \/ FetchDaddylive
    \/ FetchAllfootball
    \/ StartMerge
    \/ Pass1Step
    \/ Pass1Done
    \/ Pass2Step
    \/ Pass2Done
    \/ SortStep
    \/ WriteStep

Spec == Init /\ [][Next]_vars

----------------------------------------------------------------------------
(* Pass 2 with one worker per authoritative fixture: the workers run the   *)
(* body of the loop and append to merged in the order they finish, after   *)
(* pass 1 has ended; the sort and the writing follow the last worker.      *)

Pass2Any ==
    /\ pc = "pass2"
    /\ \E i \in todo :
          /\ merged' = merged \o Pass2Fixture(onefootball[i], allowed_tournaments)
          /\ todo' = todo \ {i}
    /\ UNCHANGED <<pc, response, onefootball, wtm, daddylive, allfootball,
                   allowed_tournaments, written, errors>>

NextPar ==
    \/ FetchOnefootball
    \/ FetchWtm
    \/ FetchDaddylive
    \/ FetchAllfootball
    \/ StartMerge
    \/ Pass1Step
    \/ Pass1Done
    \/ Pass2Any
    \/ Pass2Done
    \/ SortStep
    \/ WriteStep

SpecPar == Init /\ [][NextPar]_vars

\* What the loop of pass 2 and the sort make of the authoritative list.
SequentialMerged ==
    LET f[k \in 0..Len(onefootball)] ==
            IF k = 0 THEN <<>>
            ELSE f[k - 1] \o Pass2Fixture(onefootball[k], allowed_tournaments)
    IN  SortByKickoff(f[Len(onefootball)])

----------------------------------------------------------------------------
(* teams_match on the team names of the pages: response holds the call     *)
(* (the four names) and what it returned.                                  *)

InitTeams ==
    /\ pc = "teams_match"
    /\ \E h1, a1, h2, a2 \in TeamNames :
          response = [src |-> "teams_match", status |-> "called",
                      records |-> <<h1, a1, h2, a2>>]
    /\ onefootball = <<>>
    /\ wtm = <<>>
    /\ daddylive = <<>>
    /\ allfootball = <<>>
    /\ allowed_tournaments = {}
    /\ merged = <<>>
    /\ todo = {}
    /\ written = [status |-> "no", blocks |-> <<>>]
    /\ errors = {}

TeamsMatchCall ==
    /\ pc = "teams_match"
    /\ response' =
          [response EXCEPT !.status =
              IF teams_match(response.records[1], response.records[2],
                             response.records[3], response.records[4])
              THEN "True" ELSE "False"]
    /\ pc' = "returned"
    /\ UNCHANGED <<onefootball, wtm, daddylive, allfootball, allowed_tournaments,
                   merged, todo, written, errors>>

NextTeams == TeamsMatchCall

SpecTeams == InitTeams /\ [][NextTeams]_vars

----------------------------------------------------------------------------
(* merged.sort(key=kickoff_key) and the writing of the file, on the lists  *)
(* of records the sort can be given (the key takes any kickoff text).      *)

MaxMerged == 3

MergedRecords ==
    { [match_id |-> 1, home |-> "Arsenal", away |-> "Chelsea",
       competition |-> "Premier League", kickoff |-> At(1, 20, 0),
       channels |-> <<"Sky Sports">>],
      [match_id |-> 2, home |-> "Real Madrid", away |-> "Barcelona",
       competition |-> "La Liga", kickoff |-> Unknown,
       channels |-> <<>>],
      [match_id |-> 3, home |-> "Chelsea", away |-> "Arsenal",
       competition |-> "premier league", kickoff |-> At(1, 9, 0),
       channels |-> <<"Sky Sports", "ESPN">>],
      [match_id |-> 4, home |-> "Barcelona", away |-> "Chelsea",
       competition |-> "La Liga", kickoff |-> At(1, 20, 0),
       channels |-> <<>>],
      [match_id |-> 5, home |-> "Arsenal", away |-> "Barcelona",
       competition |-> "La Liga", kickoff |-> BadTime,
       channels |-> <<"Stream1">>],
      [match_id |-> 6, home |-> "Chelsea", away |-> "Real Madrid",
       competition |-> "Premier League", kickoff |-> At(2, 1, 30),
       channels |-> <<>>] }

\* Pass 2 is over: merged holds the emitted records in the order of the
\* authoritative list.
InitSort ==
    /\ pc = "sort"
    /\ merged \in SeqsUpTo(MergedRecords, MaxMerged)
    /\ onefootball = [i \in DOMAIN merged |->
                         [match_id |-> merged[i].match_id, home |-> merged[i].home,
                          away |-> merged[i].away,
                          competition |-> merged[i].competition,
                          kickoff |-> merged[i].kickoff]]
    /\ response = NoResponse
    /\ wtm = <<>>
    /\ daddylive = <<>>
    /\ allfootball = <<>>
    /\ allowed_tournaments = {}
    /\ todo = {}
    /\ written = [status |-> "no", blocks |-> <<>>]
    /\ errors = {}

NextSort ==
    \/ SortStep
    \/ WriteStep

SpecSort == InitSort /\ [][NextSort]_vars

----------------------------------------------------------------------------
(* PROPERTIES                                                              *)

\* Pass 2 is over / the sort is over.
Emitted == pc \in {"sort", "write", "done"}
Final == pc \in {"write", "done"}

\* The authoritative fixture a merged record was made from.
Fixture(m) ==
    [match_id |-> m.match_id, home |-> m.home, away |-> m.away,
     competition |-> m.competition, kickoff |-> m.kickoff]

InMerged(om) == \E j \in DOMAIN merged : Fixture(merged[j]) = om

\* om has a teams_match fixture in the list.
Corroborated(om, list) == \E i \in DOMAIN list : TeamsMatch(om, list[i])

\* C1: after pass 2, a non-banned authoritative fixture is in merged if and
\* only if it has a teams_match fixture in the broadcast-schedule list or in
\* the secondary-fixture list, or its lower-cased competition is in the
\* allow-list; a streaming match does not count.
C1_EmittedIffCorroborated ==
    Emitted =>
        \A i \in DOMAIN onefootball :
            LET om == onefootball[i]
            IN  ~IsBanned(om) =>
                    (InMerged(om) <=>
                        \/ Corroborated(om, wtm)
                        \/ Corroborated(om, allfootball)
                        \/ Lowered(om.competition) \in allowed_tournaments)

\* One fixture emitted, and another one discarded although a streaming
\* fixture matches it.
C1_Witness ==
    /\ pc = "done"
    /\ merged # <<>>
    /\ \E i \in DOMAIN onefootball :
           LET om == onefootball[i]
           IN  /\ ~IsBanned(om)
               /\ Corroborated(om, daddylive)
               /\ ~Corroborated(om, wtm)
               /\ ~Corroborated(om, allfootball)
               /\ Lowered(om.competition) \notin allowed_tournaments
               /\ ~InMerged(om)

\* The ban as the words describe it, looked up for the adapter's records.
HasYouthMarker(s) ==
    \E marker \in {"u18", "u19", "u21", "u23", "youth", "reserve", "reserves",
                    "academy"} : Contains(s, marker)

DescribedAsBanned(om) ==
    LET comp == Lower(om.competition)
        home == Lower(om.home)
        away == Lower(om.away)
    IN  \/ comp \in BANNED_TOURNAMENTS_LOWER
        \/ Contains(comp, "women") \/ Contains(comp, "nwsl") \/ HasYouthMarker(comp)
        \/ Contains(home, "women") \/ Contains(away, "women")
        \/ HasYouthMarker(home) \/ HasYouthMarker(away)

DescribedTable == {<<om, DescribedAsBanned(om)>> : om \in OnefootballRecords}

\* C2: an authoritative fixture that is_banned_match bans (banned
\* competition, "women"/"nwsl" or a youth/reserve marker in the competition,
\* "women" or a youth/reserve marker in a team name) is never in merged,
\* corroborated or not, allow-listed or not.
C2_BannedNeverEmitted ==
    \A i \in DOMAIN onefootball :
        LET om == onefootball[i]
        IN  (IsBanned(om) \/ <<om, TRUE>> \in DescribedTable) => ~InMerged(om)

\* A banned fixture with a broadcast match and an allow-listed competition
\* is left out, next to a fixture that is emitted.
C2_Witness ==
    /\ pc = "done"
    /\ merged # <<>>
    /\ \E i \in DOMAIN onefootball :
           LET om == onefootball[i]
           IN  /\ IsBanned(om)
               /\ Corroborated(om, wtm)
               /\ Lowered(om.competition) \in allowed_tournaments
               /\ ~InMerged(om)

\* C3: from the end of pass 1 on, the allow-list is exactly the set of the
\* lower-cased competitions of the non-banned authoritative fixtures that
\* have a teams_match fixture in the broadcast-schedule list or in the
\* secondary-fixture list, wherever they stand in the authoritative list.
C3_AllowListExact ==
    pc \in {"pass2", "sort", "write", "done"} =>
        allowed_tournaments =
            {Lowered(onefootball[i].competition) :
                i \in {k \in DOMAIN onefootball :
                          /\ ~IsBanned(onefootball[k])
                          /\ \/ Corroborated(onefootball[k], wtm)
                             \/ Corroborated(onefootball[k], allfootball)}}

\* The allow-list holds the competition of a corroborated fixture that is
\* not first in the list, not the competition of a corroborated banned one.
C3_Witness ==
    /\ pc = "done"
    /\ Len(onefootball) >= 2
    /\ ~IsBanned(onefootball[2])
    /\ Corroborated(onefootball[2], wtm)
    /\ Lowered(onefootball[2].competition) \in allowed_tournaments
    /\ IsBanned(onefootball[1])
    /\ Corroborated(onefootball[1], wtm)
    /\ Lowered(onefootball[1].competition) \notin allowed_tournaments

\* The channels of the fixtures of the list that match om, in list order.
ChannelsOf(om, list) ==
    LET f[k \in 0..Len(list)] ==
            IF k = 0 THEN <<>>
            ELSE IF TeamsMatch(om, list[k]) THEN f[k - 1] \o list[k].channels
            ELSE f[k - 1]
    IN  f[Len(list)]

\* Broadcast channels, then streaming channels.
Collected(om) == ChannelsOf(om, wtm) \o ChannelsOf(om, daddylive)

\* The elements of coll whose key (keys[i] is the key of coll[i]) occurs for
\* the first time, in order; with drop_blank, those with an empty key left out.
FirstOccurrences(coll, keys, drop_blank) ==
    LET first(i) == \A j \in 1..(i - 1) : keys[j] # keys[i]
        f[k \in 0..Len(coll)] ==
            IF k = 0 THEN <<>>
            ELSE IF first(k) /\ (drop_blank => keys[k] # "")
                 THEN Append(f[k - 1], coll[k])
                 ELSE f[k - 1]
    IN  f[Len(coll)]

\* C4: the channels of every emitted fixture are the collected sequence
\* (matching broadcast fixtures' channels in list order, then matching
\* streaming fixtures' channels in list order) with each channel kept once, at
\* the place and in the spelling of its first occurrence, where two channels
\* are the same when they are equal after trimming the surrounding white
\* space and lower-casing, and a channel that is empty after trimming is left
\* out.
C4_ChannelsDeduplicated ==
    Emitted =>
        \A j \in DOMAIN merged :
            LET coll == Collected(Fixture(merged[j]))
            IN  merged[j].channels =
                    FirstOccurrences(coll,
                        [i \in DOMAIN coll |-> Lowered(Stripped(coll[i]))], TRUE)

\* C4 as stated: the comparison is case-insensitive and nothing else, and
\* each distinct channel appears once.
C4_AsStated ==
    Emitted =>
        \A j \in DOMAIN merged :
            LET coll == Collected(Fixture(merged[j]))
            IN  merged[j].channels =
                    FirstOccurrences(coll, [i \in DOMAIN coll |-> Lowered(coll[i])], FALSE)

\* A fixture with broadcast and streaming channels, one of them a repetition
\* in another case with a trailing space, emitted with fewer channels.
C4_Witness ==
    /\ pc = "done"
    /\ \E j \in DOMAIN merged :
           LET om == Fixture(merged[j])
               coll == Collected(om)
           IN  /\ ChannelsOf(om, wtm) # <<>>
               /\ ChannelsOf(om, daddylive) # <<>>
               /\ \E a, b \in DOMAIN coll :
                      /\ a < b
                      /\ coll[a] # coll[b]
                      /\ coll[b] # Stripped(coll[b])
                      /\ Lowered(Stripped(coll[a])) = Lowered(Stripped(coll[b]))
               /\ Len(merged[j].channels) < Len(coll)
               /\ Len(merged[j].channels) >= 2

\* Two kickoff texts that sort together: the same time, or both unparseable.
SameKickoff(a, b) ==
    \/ ~a.ok /\ ~b.ok
    \/ a.ok /\ b.ok /\ a.d = b.d /\ a.h = b.h /\ a.m = b.m

\* Kickoff a is a time before kickoff b.
Before(a, b) ==
    /\ a.ok /\ b.ok
    /\ \/ a.d < b.d
       \/ a.d = b.d /\ a.h < b.h
       \/ a.d = b.d /\ a.h = b.h /\ a.m < b.m

\* C5: the final merged list is ascending by kickoff time, every fixture
\* whose kickoff cannot be parsed comes after every fixture whose kickoff can,
\* and the fixtures with equal kickoffs, and those with unparseable kickoffs,
\* stand in the order they have in the authoritative list.
C5_SortedUnknownLast ==
    Final =>
        /\ \A i, j \in DOMAIN merged :
               i < j => /\ ~Before(merged[j].kickoff, merged[i].kickoff)
                        /\ ~(~merged[i].kickoff.ok /\ merged[j].kickoff.ok)
        /\ \A k \in DOMAIN onefootball :
               SelectSeq([i \in DOMAIN merged |-> Fixture(merged[i])],
                         LAMBDA x : SameKickoff(x.kickoff, onefootball[k].kickoff))
               = SelectSeq(onefootball,
                           LAMBDA x : SameKickoff(x.kickoff, onefootball[k].kickoff))

\* The sort has moved a fixture with a parseable kickoff in front of a
\* fixture with an unparseable one, and two with unparseable kickoffs stay in
\* their order.
C5_Witness ==
    /\ pc = "done"
    /\ Len(merged) = 3
    /\ ~onefootball[1].kickoff.ok
    /\ ~onefootball[2].kickoff.ok
    /\ onefootball[1] # onefootball[2]
    /\ onefootball[3].kickoff.ok
    /\ Fixture(merged[1]) = onefootball[3]
    /\ Fixture(merged[2]) = onefootball[1]
    /\ Fixture(merged[3]) = onefootball[2]

\* The number of times x occurs in the list.
Count(list, x) == Cardinality({i \in DOMAIN list : list[i] = x})

WellFormedCard(card) == card.kickoff.ok
WellFormedRow(row) == row.cells /\ row.time.ok
WellFormedEvent(row) == row.header /\ row.time_span
WellFormedMatch(m) == m.date.ok

\* C7: when a record of a source's raw data fails to parse, the list the
\* adapter returns still holds every well-formed record of the source, those
\* before and those after the malformed one: it is the list the adapter
\* returns for the raw data without the malformed records (broadcast rows:
\* the rows with a time that parses are the same).
C7_SiblingsUnaffected ==
    /\ (response.src = "onefootball" /\ response.status = "ok") =>
           onefootball = OnefootballLoop(SelectSeq(response.records, WellFormedCard), <<>>)
    /\ (response.src = "wtm" /\ response.status = "ok") =>
           SelectSeq(wtm, LAMBDA r : r.kickoff.ok)
           = WtmLoop(SelectSeq(response.records, WellFormedRow), <<>>)
    /\ (response.src = "daddylive" /\ response.status # "fail") =>
           daddylive = DaddyliveLoop(SelectSeq(response.records, WellFormedEvent), <<>>, {})
    /\ (response.src = "allfootball" /\ response.status = "ok") =>
           allfootball = AllfootballLoop(SelectSeq(response.records, WellFormedMatch), <<>>)

\* The list of the source whose fetch has just failed is empty.
C8_FailedSourceEmpty ==
    /\ (response.src = "onefootball" /\ response.status = "fail") => onefootball = <<>>
    /\ (response.src = "wtm" /\ response.status = "fail") => wtm = <<>>
    /\ (response.src = "daddylive" /\ response.status = "fail") => daddylive = <<>>
    /\ (response.src = "allfootball" /\ response.status = "fail") => allfootball = <<>>

\* The run is over or has a next step.  Pass 2 always has one (the next
\* fixture, or the end of the pass); elsewhere it is asked of Next.
C8_HasNextStep ==
    \/ pc = "done"
    \/ pc = "pass2" /\ todo \subseteq DOMAIN onefootball
    \/ ENABLED Next

C9_SidesNotInterchangeable ==
    pc = "returned" =>
        LET homeA == response.records[1]
            awayA == response.records[2]
            homeB == response.records[3]
            awayB == response.records[4]
        IN  /\ (response.status = "True") <=>
                   (names_equivalent(homeA, homeB) /\ names_equivalent(awayA, awayB))
            /\ (homeB = awayA /\ awayB = homeA /\ ~names_equivalent(homeA, awayA))
                   => response.status = "False"

\* "Real Madrid" v "Barcelona" against "Barcelona" v "Real Madrid": no match.
C9_Witness ==
    /\ pc = "returned"
    /\ response.records = <<"Real Madrid", "Barcelona", "Barcelona", "Real Madrid">>
    /\ response.status = "False"

\* The channels of a list of records hold no "Not specified".
NoSentinel(list) ==
    \A i \in DOMAIN list :
        \A k \in DOMAIN list[i].channels : list[i].channels[k] # "Not specified"

\* C10: "Not specified" is never an element of the channels of a record an
\* adapter returns or of a merged fixture, and a fixture that no source gave
\* a channel other than blanks and "Not specified" is emitted with no
\* channels.
C10_NotSpecifiedNeverData ==
    /\ NoSentinel(wtm)
    /\ NoSentinel(daddylive)
    /\ NoSentinel(merged)
    /\ Emitted =>
           \A j \in DOMAIN merged :
               LET coll == Collected(Fixture(merged[j]))
               IN  (\A k \in DOMAIN coll :
                        Lowered(Stripped(coll[k])) \in {"", "not specified"})
                       => merged[j].channels = <<>>

\* C11: the streaming source never corroborates on its own: when the
\* broadcast-schedule list and the secondary-fixture list are both empty, the
\* allow-list and the merged output are empty whatever the authoritative and
\* the streaming list hold; and the lower-cased competition of every emitted
\* fixture is in the allow-list.
C11_StreamingNeverCorroborates ==
    /\ (pc \in {"pass2", "sort", "write", "done"} /\ wtm = <<>> /\ allfootball = <<>>)
           => (allowed_tournaments = {} /\ merged = <<>>)
    /\ Emitted =>
           \A j \in DOMAIN merged :
               Lowered(merged[j].competition) \in allowed_tournaments

\* No broadcast and no secondary fixture; a non-banned authoritative fixture
\* with a matching streaming fixture; the run ends with nothing emitted.
C11_Witness ==
    /\ pc = "done"
    /\ wtm = <<>>
    /\ allfootball = <<>>
    /\ \E i \in DOMAIN onefootball :
           ~IsBanned(onefootball[i]) /\ Corroborated(onefootball[i], daddylive)
    /\ allowed_tournaments = {}
    /\ merged = <<>>
====
